---- MODULE Spec2Model ----
(***************************************************************************)
(* A model of the tosch-hl7 codec: HL7Message (document), Segment,        *)
(* HL7Field, HL7Component and the path resolver.                          *)
(*                                                                         *)
(* A string is a sequence of one-character strings, so that split, join,  *)
(* the line splitter and the path grammar are computed character by       *)
(* character as the code computes them.  JavaScript array position i is   *)
(* position i + 1 of the TLA+ sequence.                                   *)
(***************************************************************************)
EXTENDS Integers, Sequences, FiniteSets, TLC

VARIABLES raw, store, segments, parsedSegments, props, last, steps, builder, calls

vars == <<raw, store, segments, parsedSegments, props, last, steps, builder, calls>>

(***************************************************************************)
(* Bounds of the exploration.                                              *)
(***************************************************************************)
\* largest number of segment lines of a raw text that is parsed and read
MaxLines == 2
\* largest field, component or subcomponent number of a read
MaxIndex == 2
\* largest number of set calls in a run
MaxSteps == 2
\* largest number of rules of a validator
MaxRules == 2
\* largest number of addSegment calls on a builder
MaxCalls == 2

(***************************************************************************)
(* Characters.                                                             *)
(***************************************************************************)
CR == "\r"
LF == "\n"
CRLF == <<CR, LF>>
Upper == {"A","B","C","D","E","F","G","H","I","J","K","L","M",
          "N","O","P","Q","R","S","T","U","V","W","X","Y","Z"}
DigitSeq == <<"0","1","2","3","4","5","6","7","8","9">>
Digits == {DigitSeq[i] : i \in 1..10}
Whitespace == {" ", "\t", CR, LF}

\* the JavaScript values null / undefined for an object, and undefined for
\* an optional number
NULL == [null |-> TRUE]
undefined == -1

(***************************************************************************)
(* String primitives.                                                      *)
(***************************************************************************)
\* String.prototype.split with a one-character separator
RECURSIVE split(_, _)
split(s, d) ==
    IF \A i \in 1..Len(s) : s[i] # d
    THEN <<s>>
    ELSE LET k == CHOOSE i \in 1..Len(s) :
                      s[i] = d /\ \A j \in 1..(i - 1) : s[j] # d
         IN  <<SubSeq(s, 1, k - 1)>> \o split(SubSeq(s, k + 1, Len(s)), d)

\* Array.prototype.join
RECURSIVE join(_, _)
join(parts, d) ==
    IF Len(parts) = 0 THEN <<>>
    ELSE IF Len(parts) = 1 THEN parts[1]
    ELSE parts[1] \o d \o join(Tail(parts), d)

\* parseInt(digits, 10) of a non-empty digit string
RECURSIVE parseInt(_)
parseInt(ds) ==
    IF Len(ds) = 0 THEN 0
    ELSE 10 * parseInt(SubSeq(ds, 1, Len(ds) - 1))
         + ((CHOOSE i \in 1..10 : DigitSeq[i] = ds[Len(ds)]) - 1)

\* rawHL7.split(/\r?\n/)
RECURSIVE splitLines(_)
splitLines(s) ==
    IF \A i \in 1..Len(s) : s[i] # LF
    THEN <<s>>
    ELSE LET k == CHOOSE i \in 1..Len(s) :
                      s[i] = LF /\ \A j \in 1..(i - 1) : s[j] # LF
             e == IF k > 1 /\ s[k - 1] = CR THEN k - 2 ELSE k - 1
         IN  <<SubSeq(s, 1, e)>> \o splitLines(SubSeq(s, k + 1, Len(s)))

\* String.prototype.trim
RECURSIVE trim(_)
trim(s) ==
    IF Len(s) = 0 THEN s
    ELSE IF s[1] \in Whitespace THEN trim(Tail(s))
    ELSE IF s[Len(s)] \in Whitespace THEN trim(SubSeq(s, 1, Len(s) - 1))
    ELSE s

\* line !== '', without the trim
notEmpty(line) == Len(line) > 0

\* line.trim() !== ''
notBlank(line) == \E i \in 1..Len(line) : line[i] \notin Whitespace

(***************************************************************************)
(* HL7Component: a component string and its subcomponent list.            *)
(***************************************************************************)
\* new HL7Component(value)
HL7Component(value) == [value |-> value, subcomponents |-> split(value, "&")]

\* component[index]: the subcomponent string wrapped, or null
HL7ComponentProxyGet(component, index) ==
    IF index >= 1 /\ index <= Len(component.subcomponents)
    THEN [value |-> component.subcomponents[index]]
    ELSE NULL

\* padAssign filling the new positions with the value in place of ''
padAssignFilled(arr, index, value) ==
    IF index = 0 THEN arr
    ELSE [i \in 1..(IF Len(arr) < index THEN index ELSE Len(arr)) |->
             IF i = index THEN value
             ELSE IF i <= Len(arr) THEN arr[i] ELSE value]

\* array[index - 1] = value after padding the array with '' up to index;
\* index 0 assigns the property "-1", which is no array position
padAssign(arr, index, value) ==
    IF index = 0 THEN arr
    ELSE [i \in 1..(IF Len(arr) < index THEN index ELSE Len(arr)) |->
             IF i = index THEN value
             ELSE IF i <= Len(arr) THEN arr[i] ELSE <<>>]

\* component[index] = value
HL7ComponentProxySet(component, index, value) ==
    LET subs == padAssign(component.subcomponents, index, value)
    IN  [value |-> join(subs, <<"&">>), subcomponents |-> subs]

(***************************************************************************)
(* HL7Field: a field string and its component list.                       *)
(***************************************************************************)
\* new HL7Field(value)
HL7Field(value) == [value |-> value, components |-> split(value, "^")]

\* field[index]: a new HL7Component over the component string, or null
HL7FieldProxyGet(field, index) ==
    IF index >= 1 /\ index <= Len(field.components)
    THEN HL7Component(field.components[index])
    ELSE NULL

\* field[index] = value without the update of the string value
HL7FieldProxySetStale(field, index, value) ==
    [value |-> field.value, components |-> padAssign(field.components, index, value)]

\* field[index] = value
HL7FieldProxySet(field, index, value) ==
    LET comps == padAssign(field.components, index, value)
    IN  [value |-> join(comps, <<"^">>), components |-> comps]

(***************************************************************************)
(* Segment: the field list (position 0 is the name) and the name.         *)
(***************************************************************************)
\* new Segment(line)
Segment(line) ==
    LET fields == split(line, "|")
    IN  [fields |-> fields, name |-> fields[1]]

\* segment.getName()
getName(segment) == segment.name

\* segment.getField(index): this.fields[index] || ''
getField(segment, index) ==
    IF index + 1 <= Len(segment.fields) THEN segment.fields[index + 1] ELSE <<>>

\* getComponent reading components[componentIndex], without the conversion
\* of the 1-based index
getComponentZeroBased(segment, fieldIndex, componentIndex) ==
    LET field == getField(segment, fieldIndex)
        components == split(field, "^")
    IN  IF field = <<>> THEN <<>>
        ELSE IF componentIndex >= 0 /\ componentIndex < Len(components)
             THEN components[componentIndex + 1]
             ELSE <<>>

\* segment.getComponent(fieldIndex, componentIndex)
getComponent(segment, fieldIndex, componentIndex) ==
    LET field == getField(segment, fieldIndex)
        components == split(field, "^")
    IN  IF field = <<>> THEN <<>>
        ELSE IF componentIndex >= 1 /\ componentIndex <= Len(components)
             THEN components[componentIndex]
             ELSE <<>>

\* segment.getSubcomponent(fieldIndex, componentIndex, subcomponentIndex)
getSubcomponent(segment, fieldIndex, componentIndex, subcomponentIndex) ==
    LET component == getComponent(segment, fieldIndex, componentIndex)
        subcomponents == split(component, "&")
    IN  IF component = <<>> THEN <<>>
        ELSE IF subcomponentIndex >= 1 /\ subcomponentIndex <= Len(subcomponents)
             THEN subcomponents[subcomponentIndex]
             ELSE <<>>

\* segment[index]: a new HL7Field over getField(index), or null when that
\* string is empty
SegmentProxyGet(segment, index) ==
    LET fieldValue == getField(segment, index)
    IN  IF fieldValue = <<>> THEN NULL ELSE HL7Field(fieldValue)

\* segment[index] = value: pad the field list while length <= index, assign
SegmentProxySet(segment, index, value) ==
    LET n == IF Len(segment.fields) <= index THEN index + 1 ELSE Len(segment.fields)
    IN  [segment EXCEPT !.fields =
            [i \in 1..n |->
                IF i = index + 1 THEN value
                ELSE IF i <= Len(segment.fields) THEN segment.fields[i] ELSE <<>>]]

\* segment.toString()
SegmentToString(segment) == join(segment.fields, <<"|">>)

(***************************************************************************)
(* HL7Message.  A document is [store, segments, parsedSegments, props]:   *)
(* store holds the Segment objects, segments is the ordered list (of      *)
(* object identities), parsedSegments maps a name to one Segment or to an *)
(* array of Segments, and props holds the properties of the object that   *)
(* are named after segments.                                               *)
(***************************************************************************)
\* members of Object.prototype: parsed[name] is one of them before any
\* segment is grouped
InheritedNames ==
    { <<"t", "o", "S", "t", "r", "i", "n", "g">>,
      <<"c", "o", "n", "s", "t", "r", "u", "c", "t", "o", "r">>,
      <<"v", "a", "l", "u", "e", "O", "f">>,
      <<"h", "a", "s", "O", "w", "n", "P", "r", "o", "p", "e", "r", "t", "y">> }

\* this.parsedSegments[name] finding no name
lookupMissing(ps, name) == NULL

\* this.parsedSegments[name]; undefined for a name that is no key
lookup(ps, name) == IF name \in DOMAIN ps THEN ps[name] ELSE NULL

\* firstOf taking the last Segment of an array
firstOfLast(segmentData) ==
    IF segmentData = NULL THEN 0 ELSE segmentData.segs[Len(segmentData.segs)]

\* the Segment resolved by get, set, getSegment and document[name]:
\* segmentData[0] of an array, segmentData itself otherwise
firstOf(segmentData) == IF segmentData = NULL THEN 0 ELSE segmentData.segs[1]

\* parseSegmentsToObject(): group the ordered list by getName(); a group of
\* one is stored as the Segment, a larger one as the array
parseSegmentsToObject(st, segs) ==
    LET names == {st[segs[i]].name : i \in 1..Len(segs)}
        group(n) == SelectSeq(segs, LAMBDA id : st[id].name = n)
    IN  [n \in names |-> [array |-> Len(group(n)) > 1, segs |-> group(n)]]

\* assignSegmentProperties leaving the object without properties
assignNoProperties(ps) == [n \in {} |-> 0]

\* assignSegmentProperties(): this[name] is the first Segment of each name
\* of the index
assignSegmentProperties(ps) == [n \in DOMAIN ps |-> ps[n].segs[1]]

\* the constructor: split the text into lines, drop the blank ones, one
\* Segment per line, then the name index and the properties
HL7Message(rawHL7) ==
    LET lines == SelectSeq(splitLines(rawHL7), notBlank)
        st == [i \in 1..Len(lines) |-> Segment(lines[i])]
        segs == [i \in 1..Len(lines) |-> i]
        ps == parseSegmentsToObject(st, segs)
    IN  [store |-> st, segments |-> segs, parsedSegments |-> ps,
         props |-> assignSegmentProperties(ps)]

\* [A-Z]{2,3}[0-9]? of the path grammar
isSegmentName(n) ==
    \/ Len(n) \in {2, 3} /\ \A i \in 1..Len(n) : n[i] \in Upper
    \/ /\ Len(n) \in {3, 4}
       /\ \A i \in 1..(Len(n) - 1) : n[i] \in Upper
       /\ n[Len(n)] \in Digits

\* \d+
isNumber(ds) == Len(ds) >= 1 /\ \A i \in 1..Len(ds) : ds[i] \in Digits

\* parsePath with the name pattern [A-Z]{2,}[0-9]? in place of
\* [A-Z]{2,3}[0-9]?
parsePathLongName(path) ==
    IF \A i \in 1..Len(path) : path[i] # "-" THEN NULL
    ELSE LET k == CHOOSE i \in 1..Len(path) :
                      path[i] = "-" /\ \A j \in 1..(i - 1) : path[j] # "-"
             name == SubSeq(path, 1, k - 1)
             nums == split(SubSeq(path, k + 1, Len(path)), ".")
         IN  IF /\ Len(name) >= 2
                /\ \A i \in 1..(Len(name) - 1) : name[i] \in Upper
                /\ name[Len(name)] \in Upper \cup Digits
                /\ Len(nums) \in 1..3
                /\ \A i \in 1..Len(nums) : isNumber(nums[i])
             THEN [segmentName |-> name,
                   fieldIndex |-> parseInt(nums[1]),
                   componentIndex |->
                       IF Len(nums) >= 2 THEN parseInt(nums[2]) ELSE undefined,
                   subcomponentIndex |->
                       IF Len(nums) >= 3 THEN parseInt(nums[3]) ELSE undefined]
             ELSE NULL

\* parsePath(path): null unless the path matches
\* ^([A-Z]{2,3}[0-9]?)-(\d+)(?:\.(\d+))?(?:\.(\d+))?$
parsePath(path) ==
    IF \A i \in 1..Len(path) : path[i] # "-" THEN NULL
    ELSE LET k == CHOOSE i \in 1..Len(path) :
                      path[i] = "-" /\ \A j \in 1..(i - 1) : path[j] # "-"
             name == SubSeq(path, 1, k - 1)
             nums == split(SubSeq(path, k + 1, Len(path)), ".")
         IN  IF /\ isSegmentName(name)
                /\ Len(nums) \in 1..3
                /\ \A i \in 1..Len(nums) : isNumber(nums[i])
             THEN [segmentName |-> name,
                   fieldIndex |-> parseInt(nums[1]),
                   componentIndex |->
                       IF Len(nums) >= 2 THEN parseInt(nums[2]) ELSE undefined,
                   subcomponentIndex |->
                       IF Len(nums) >= 3 THEN parseInt(nums[3]) ELSE undefined]
             ELSE NULL

\* the value a call returns, and a call that ends in a TypeError
Returns(v) == [threw |-> FALSE, value |-> v]
TypeError == [threw |-> TRUE, value |-> <<>>]

\* get(path)
get(this, path) ==
    LET pathParts == parsePath(path)
    IN  IF pathParts = NULL THEN Returns(<<>>)
        ELSE LET segmentData == lookup(this.parsedSegments, pathParts.segmentName)
             IN  IF segmentData = NULL THEN Returns(<<>>)
                 ELSE LET segment == this.store[firstOf(segmentData)]
                      IN  IF pathParts.componentIndex = undefined
                          THEN Returns(getField(segment, pathParts.fieldIndex))
                          ELSE IF pathParts.subcomponentIndex = undefined
                          THEN Returns(getComponent(segment, pathParts.fieldIndex,
                                                    pathParts.componentIndex))
                          ELSE Returns(getSubcomponent(segment, pathParts.fieldIndex,
                                                       pathParts.componentIndex,
                                                       pathParts.subcomponentIndex))

\* getAllSegments(name)
getAllSegments(this, name) ==
    LET segmentData == lookup(this.parsedSegments, name)
    IN  IF segmentData = NULL THEN <<>> ELSE segmentData.segs

\* getSegments()
getSegments(this) == this.segments

\* getSegment(name): 0 stands for undefined
getSegment(this, name) == firstOf(lookup(this.parsedSegments, name))

\* hasSegment(name): name in this.parsedSegments, which is true of the
\* inherited members too
hasSegment(this, name) ==
    name \in DOMAIN this.parsedSegments \/ name \in InheritedNames

\* toString()
toString(this) ==
    join([i \in 1..Len(this.segments) |-> SegmentToString(this.store[this.segments[i]])],
         CRLF)

\* createSegment as the earlier variant of set has it: the new Segment is
\* entered in the name index and never appended to the ordered list
createSegmentEarlier(this, segmentName) ==
    LET id == Len(this.store) + 1
    IN  [store |-> Append(this.store, Segment(segmentName \o <<"|">>)),
         segments |-> this.segments,
         parsedSegments |->
             (segmentName :> [array |-> FALSE, segs |-> <<id>>]) @@ this.parsedSegments,
         props |-> (segmentName :> id) @@ this.props]

\* lines 317-324 of set: the target segment does not exist, so an empty one
\* is made, entered in the name index, made a property of the object and
\* appended to the ordered list
createSegment(this, segmentName) ==
    LET id == Len(this.store) + 1
    IN  [store |-> Append(this.store, Segment(segmentName \o <<"|">>)),
         segments |-> Append(this.segments, id),
         parsedSegments |->
             (segmentName :> [array |-> FALSE, segs |-> <<id>>]) @@ this.parsedSegments,
         props |-> (segmentName :> id) @@ this.props]

\* a read that makes the segment it does not find
afterReadCreating(this, name) ==
    IF name = <<>> \/ name \in DOMAIN this.parsedSegments THEN this
    ELSE createSegment(this, name)

\* the document after get, getSegment, getAllSegments, hasSegment,
\* toString or a positional read that looked for the segment name (<<>>
\* when it looked for none): these assign to no member of the document
\* and to no Segment
afterRead(this, name) == this

\* lines 326-342 of set, on the resolved Segment: the Segment afterwards,
\* whether the call ended in a TypeError, and the Field view it wrote last
\* (a temporary, which the call drops)
writePath(segment, pathParts, value) ==
    LET fieldIndex == pathParts.fieldIndex
        componentIndex == pathParts.componentIndex
        subcomponentIndex == pathParts.subcomponentIndex
        \* if (!segment[fieldIndex]) segment[fieldIndex] = ''
        seg1 == IF SegmentProxyGet(segment, fieldIndex) = NULL
                THEN SegmentProxySet(segment, fieldIndex, <<>>)
                ELSE segment
        \* segment[fieldIndex], read again
        field == SegmentProxyGet(seg1, fieldIndex)
        \* if (!segment[fieldIndex][componentIndex])
        \*     segment[fieldIndex][componentIndex] = ''
        padded == IF HL7FieldProxyGet(field, componentIndex) = NULL
                  THEN HL7FieldProxySet(field, componentIndex, <<>>)
                  ELSE field
        \* segment[fieldIndex][componentIndex], read again
        component == HL7FieldProxyGet(field, componentIndex)
    IN  IF componentIndex = undefined \/ componentIndex = 0
        THEN [segment |-> SegmentProxySet(segment, fieldIndex, value),
              threw |-> FALSE, temp |-> NULL]
        ELSE IF field = NULL
        THEN [segment |-> seg1, threw |-> TRUE, temp |-> NULL]
        ELSE IF subcomponentIndex = undefined \/ subcomponentIndex = 0
        THEN [segment |-> seg1, threw |-> FALSE,
              temp |-> HL7FieldProxySet(field, componentIndex, value)]
        ELSE IF component = NULL
        THEN [segment |-> seg1, threw |-> TRUE, temp |-> padded]
        ELSE [segment |-> seg1, threw |-> FALSE,
              temp |-> HL7ComponentProxySet(component, subcomponentIndex, value)]

\* set(path, value): the document afterwards and how the call ended
set(this, path, value) ==
    LET pathParts == parsePath(path)
    IN  IF pathParts = NULL
        THEN [doc |-> this, threw |-> FALSE, created |-> FALSE, temp |-> NULL]
        ELSE LET segmentData == lookup(this.parsedSegments, pathParts.segmentName)
                 created == segmentData = NULL
                 this1 == IF created
                          THEN createSegment(this, pathParts.segmentName)
                          ELSE this
                 id == IF created THEN Len(this.store) + 1 ELSE firstOf(segmentData)
                 w == writePath(this1.store[id], pathParts, value)
             IN  [doc |-> [this1 EXCEPT !.store[id] = w.segment],
                  threw |-> w.threw, created |-> created, temp |-> w.temp]

\* document[prop] (the constructor's Proxy): a name of the segment-name
\* shape is resolved in parsedSegments; any other property is read from the
\* object, where assignSegmentProperties and set put the first Segment of
\* each name.  0 stands for null / undefined.
documentProxyGet(this, prop) ==
    IF isSegmentName(prop)
    THEN firstOf(lookup(this.parsedSegments, prop))
    ELSE IF prop \in DOMAIN this.props THEN this.props[prop] ELSE 0

\* the positional read document[name][f], document[name][f][c] or
\* document[name][f][c][s], each step taken only on a non-null value (?.):
\* the absent marker, or the string value of the view reached
indexedRead(this, name, nums) ==
    LET seg == documentProxyGet(this, name)
        field == IF seg = 0 THEN NULL ELSE SegmentProxyGet(this.store[seg], nums[1])
        component == IF field = NULL \/ Len(nums) < 2 THEN NULL
                     ELSE HL7FieldProxyGet(field, nums[2])
        subcomponent == IF component = NULL \/ Len(nums) < 3 THEN NULL
                        ELSE HL7ComponentProxyGet(component, nums[3])
        reached == IF Len(nums) = 1 THEN field
                   ELSE IF Len(nums) = 2 THEN component
                   ELSE subcomponent
    IN  IF reached = NULL
        THEN [absent |-> TRUE, value |-> <<>>]
        ELSE [absent |-> FALSE, value |-> reached.value]

(***************************************************************************)
(* Names that meet members.  parseSegmentsToObject groups the segments in *)
(* a plain object, which inherits the members of Object.prototype, and     *)
(* assignSegmentProperties writes this[name] for every name of the index,  *)
(* which replaces a member of the document that has that name.  props      *)
(* records those writes; the variables store, segments and parsedSegments  *)
(* keep what the constructor built.                                        *)
(***************************************************************************)
\* the members of the document that its methods use
segmentsMember == <<"s", "e", "g", "m", "e", "n", "t", "s">>
getMember == <<"g", "e", "t">>
setMember == <<"s", "e", "t">>
parsePathMember == <<"p", "a", "r", "s", "e", "P", "a", "t", "h">>
toStringMember == <<"t", "o", "S", "t", "r", "i", "n", "g">>
getSegmentsMember == <<"g", "e", "t", "S", "e", "g", "m", "e", "n", "t", "s">>

\* new HL7Message(rawHL7) ends in a TypeError: parsed[name] is inherited,
\* so no array is made for the name, and parsed[name].push is no function
constructorThrows(rawHL7) ==
    LET lines == SelectSeq(splitLines(rawHL7), notBlank)
    IN  \E i \in 1..Len(lines) : Segment(lines[i]).name \in InheritedNames

\* this[member] is a Segment, written by assignSegmentProperties or set
overwritten(this, member) == member \in DOMAIN this.props

\* message.getSegments(): the ordered list, or the Segment that replaced it
getSegmentsCall(this) ==
    IF overwritten(this, getSegmentsMember)
    THEN [threw |-> TRUE, isList |-> FALSE, value |-> <<>>]
    ELSE IF overwritten(this, segmentsMember)
    THEN [threw |-> FALSE, isList |-> FALSE, value |-> <<this.props[segmentsMember]>>]
    ELSE [threw |-> FALSE, isList |-> TRUE, value |-> getSegments(this)]

\* message.toString(): this.segments.map is no function when this.segments
\* is a Segment
toStringCall(this) ==
    IF overwritten(this, toStringMember) \/ overwritten(this, segmentsMember)
    THEN TypeError
    ELSE Returns(toString(this))

\* message.get(path): message.get is no function when it is a Segment
getCall(this, path) ==
    IF overwritten(this, getMember) \/ overwritten(this, parsePathMember)
    THEN TypeError
    ELSE get(this, path)

\* message.set(path, value): when this.segments is a Segment and the
\* segment of the path does not exist, the new Segment is entered in the
\* name index and made a property, and this.segments.push is no function
setCall(this, path, value) ==
    LET pathParts == parsePath(path)
        unchanged == [doc |-> this, threw |-> TRUE, created |-> FALSE, temp |-> NULL]
    IN  IF overwritten(this, setMember) \/ overwritten(this, parsePathMember)
        THEN unchanged
        ELSE IF /\ overwritten(this, segmentsMember)
                /\ pathParts # NULL
                /\ lookup(this.parsedSegments, pathParts.segmentName) = NULL
        THEN [doc |-> [createSegment(this, pathParts.segmentName)
                          EXCEPT !.segments = this.segments],
              threw |-> TRUE, created |-> TRUE, temp |-> NULL]
        ELSE set(this, path, value)

(***************************************************************************)
(* HL7Builder.  The builder is its list of segment lines; fields is a     *)
(* function from the keys that are supplied to their values.               *)
(***************************************************************************)
EncodingCharacters == <<"^", "~", "\\", "&">>

\* Math.max of the keys, -Infinity (here -1) when there is none
maxKey(fields) ==
    IF DOMAIN fields = {} THEN -1
    ELSE CHOOSE k \in DOMAIN fields : \A j \in DOMAIN fields : j <= k

\* the forEach over the keys, in ascending order: fieldArray[index] = value
RECURSIVE assignFields(_, _, _)
assignFields(fieldArray, fields, keys) ==
    IF keys = {} THEN fieldArray
    ELSE LET index == CHOOSE k \in keys : \A j \in keys : k <= j
         IN  assignFields(padAssign(fieldArray, index + 1, fields[index]),
                          fields, keys \ {index})

\* addSegment of the earlier builder: the array has maxIndex - 1 places
\* and begins at field 2, the key k is written to place k - 2 if the array
\* has it, and the name is put before the array
addSegmentEarlier(this, name, fields) ==
    IF DOMAIN fields = {} \/ maxKey(fields) < 1 THEN [threw |-> TRUE, value |-> this]
    ELSE LET maxIndex == maxKey(fields)
             empty == [i \in 1..(maxIndex - 1) |-> <<>>]
             first == IF name = <<"M", "S", "H">> THEN padAssign(empty, 1, EncodingCharacters)
                      ELSE empty
             fieldArray == [i \in 1..Len(first) |->
                               IF (i + 1) \in DOMAIN fields THEN fields[i + 1]
                               ELSE first[i]]
         IN  [threw |-> FALSE,
              value |-> Append(this, name \o <<"|">> \o join(fieldArray, <<"|">>))]

\* addSegment(name, fields): the line is pushed, or Array(-Infinity) ends
\* the call in a RangeError
addSegment(this, name, fields) ==
    IF DOMAIN fields = {} THEN [threw |-> TRUE, value |-> this]
    ELSE LET maxIndex == maxKey(fields)
             empty == [i \in 1..maxIndex |-> <<>>]
             named == padAssign(empty, 0 + 1, name)
             first == IF name = <<"M", "S", "H">>
                      THEN padAssign(named, 1 + 1, EncodingCharacters)
                      ELSE named
             fieldArray == assignFields(first, fields, DOMAIN fields)
         IN  [threw |-> FALSE, value |-> Append(this, join(fieldArray, <<"|">>))]

\* build(): the lines joined by CRLF, parsed
build(this) == join(this, CRLF)

(***************************************************************************)
(* CustomValidator.  A rule is [path, required, maxLength, allowedValues, *)
(* dataType]: maxLength 0 and dataType "" stand for a property that is    *)
(* not set, allowedValues is [set, values].  An error is [path, message]. *)
(***************************************************************************)
\* the messages, as text followed by the value that is spliced in
RequiredMissing == [text |-> "The required field is missing.", arg |-> <<>>]
MaxLengthExceeded(maxLength) ==
    [text |-> "The value exceeds the maximum length of ", arg |-> maxLength]
NotAllowed(value) ==
    [text |-> "The value is not in the list of allowed values.", arg |-> value]
NotADate(value) == [text |-> "The value is not a valid date (YYYYMMDD).", arg |-> value]
NotANumber(value) == [text |-> "The value is not a valid number.", arg |-> value]

\* !isNaN(Number(value)) for a text without exponent, radix prefix or
\* 'Infinity': white space is trimmed, the empty text is 0, otherwise an
\* optional sign and digits with at most one point
isNumeric(value) ==
    LET t == trim(value)
        u == IF Len(t) > 0 /\ t[1] \in {"+", "-"} THEN Tail(t) ELSE t
    IN  \/ t = <<>>
        \/ /\ \A i \in 1..Len(u) : u[i] \in Digits \cup {"."}
           /\ \E i \in 1..Len(u) : u[i] \in Digits
           /\ Cardinality({i \in 1..Len(u) : u[i] = "."}) <= 1

\* !isNaN(Date.parse(value)): a text in the date-time format of the
\* language (here YYYY, YYYY-MM, YYYY-MM-DD) is parsed; what any other text
\* gives is left to the implementation, legacy being its answer
isDate(value, legacy) ==
    LET digitsAt(a, b) == \A i \in a..b : value[i] \in Digits
        number(a, b) == parseInt(SubSeq(value, a, b))
    IN  IF Len(value) = 4 /\ digitsAt(1, 4) THEN TRUE
        ELSE IF Len(value) = 7 /\ digitsAt(1, 4) /\ value[5] = "-" /\ digitsAt(6, 7)
        THEN number(6, 7) \in 1..12
        ELSE IF /\ Len(value) = 10 /\ digitsAt(1, 4) /\ value[5] = "-"
                /\ digitsAt(6, 7) /\ value[8] = "-" /\ digitsAt(9, 10)
        THEN number(6, 7) \in 1..12 /\ number(9, 10) \in 1..31
        ELSE legacy

\* the checks of the loop body that follow the required-field check
furtherChecks(value, rule, legacy) ==
    IF value = <<>> THEN <<>>
    ELSE (IF rule.maxLength # 0 /\ Len(value) > rule.maxLength
          THEN <<[path |-> rule.path, message |-> MaxLengthExceeded(rule.maxLength)]>>
          ELSE <<>>)
         \o (IF /\ rule.allowedValues.set
                /\ \A i \in 1..Len(rule.allowedValues.values) :
                       rule.allowedValues.values[i] # value
             THEN <<[path |-> rule.path, message |-> NotAllowed(value)]>>
             ELSE <<>>)
         \o (IF rule.dataType = "DT" /\ ~isDate(value, legacy)
             THEN <<[path |-> rule.path, message |-> NotADate(value)]>>
             ELSE <<>>)
         \o (IF rule.dataType = "NM" /\ ~isNumeric(value)
             THEN <<[path |-> rule.path, message |-> NotANumber(value)]>>
             ELSE <<>>)

\* the loop body without the continue after the required-field error
ruleErrorsNoContinue(this, rule, legacy) ==
    LET value == get(this, rule.path).value
    IN  (IF rule.required /\ (value = <<>> \/ trim(value) = <<>>)
         THEN <<[path |-> rule.path, message |-> RequiredMissing]>>
         ELSE <<>>)
        \o furtherChecks(value, rule, legacy)

\* the body of the loop of validate: the errors one rule adds
ruleErrors(this, rule, legacy) ==
    LET value == get(this, rule.path).value
    IN  IF rule.required /\ (value = <<>> \/ trim(value) = <<>>)
        THEN <<[path |-> rule.path, message |-> RequiredMissing]>>
        ELSE furtherChecks(value, rule, legacy)

\* the loop of validate adding the errors of a rule before those of the
\* rules that precede it
RECURSIVE validateLoopReversed(_, _, _)
validateLoopReversed(this, rules, legacy) ==
    IF Len(rules) = 0 THEN <<>>
    ELSE validateLoopReversed(this, Tail(rules), legacy)
             \o ruleErrors(this, rules[1], legacy)

\* validate(message): the loop over the rules, then the result
RECURSIVE validateLoop(_, _, _)
validateLoop(this, rules, legacy) ==
    IF Len(rules) = 0 THEN <<>>
    ELSE ruleErrors(this, rules[1], legacy) \o validateLoop(this, Tail(rules), legacy)

validate(this, rules, legacy) ==
    LET errors == validateLoop(this, rules, legacy)
    IN  [isValid |-> Len(errors) = 0, errors |-> errors]

(***************************************************************************)
(* Inputs.                                                                 *)
(***************************************************************************)
PID == <<"P", "I", "D">>
OBX == <<"O", "B", "X">>
NK1 == <<"N", "K", "1">>

\* the segment lines raw texts are made of
SampleLines ==
    { PID \o <<"|", "1", "|">>,
      PID \o <<"|", "a", "^", "b", "&", "c">>,
      OBX \o <<"|", "|", "y">> }

\* the separators between the lines of a raw text
Separators == { CRLF, <<LF>>, <<CR>> }

\* the two-segment message of the readme's get() examples, its segments
\* separated by a single CR
MSH == <<"M", "S", "H">>
ScenarioText ==
    MSH \o <<"|", "^", "~", "\\", "&", "|", "A", "|", "B", "|", "C", "|", "D", "|",
             "2", "0", "2", "4", "0", "1", "0", "1", "|", "|",
             "A", "D", "T", "^", "A", "0", "1", "|", "1", "|", "P", "|", "2", ".", "4">>
        \o <<CR>>
        \o PID \o <<"|", "1", "|", "|", "X", "|", "|", "D", "O", "E", "^", "J", "O", "H", "N">>

\* the texts of exactly n lines, one separator of seps between two lines
RECURSIVE TextsOf(_, _)
TextsOf(seps, n) ==
    IF n = 0 THEN {<<>>}
    ELSE IF n = 1 THEN SampleLines
    ELSE {t \o sep \o l : t \in TextsOf(seps, n - 1), sep \in seps, l \in SampleLines}

\* texts of white space only
BlankTexts ==
    { <<" ">>, <<"\t">>, CRLF, <<CR>>,
      <<" ", " ", " ", LF, " ", " ", " ", CR, LF, " ", " ", " ">> }

\* the texts made of segment lines
WellFormedTexts == UNION {TextsOf(Separators, n) : n \in 0..MaxLines} \cup {ScenarioText}

\* the raw texts that are parsed and read
RawTexts == WellFormedTexts \cup BlankTexts

\* a line whose name is not of the segment-name shape (it has no field)
INVALID_SEGMENT ==
    <<"I", "N", "V", "A", "L", "I", "D", "_", "S", "E", "G", "M", "E", "N", "T">>

\* the raw texts of the documents that are written to: no line, one line,
\* or two lines, and the texts of one or two lines that have the line
\* INVALID_SEGMENT
DocTexts ==
    TextsOf({CRLF}, 0) \cup TextsOf({CRLF}, 1) \cup TextsOf({CRLF}, 1 + 1)
        \cup {INVALID_SEGMENT, INVALID_SEGMENT \o CRLF \o INVALID_SEGMENT}
        \cup UNION {{l \o CRLF \o INVALID_SEGMENT, INVALID_SEGMENT \o CRLF \o l} :
                       l \in SampleLines}

\* the decimal digits of a number below 100
digitsOf(n) ==
    IF n < 10 THEN <<DigitSeq[n + 1]>>
    ELSE <<DigitSeq[(n \div 10) + 1], DigitSeq[(n % 10) + 1]>>

\* the path NAME-f[.c[.s]] as text
pathOf(name, nums) ==
    name \o <<"-">> \o join([i \in 1..Len(nums) |-> digitsOf(nums[i])], <<".">>)

\* a path as the caller writes it: the text, and the address <<name,
\* numbers>> the text was written from (<<>> for a text that is no address)
pathInput(a) == [text |-> pathOf(a[1], a[2]), addr |-> a]
malformedInput(text) == [text |-> text, addr |-> <<>>]

\* the addresses read: every name, every index from 0 to MaxIndex
ReadNames == {PID, OBX, NK1}
ReadTuples == UNION {[1..n -> 0..MaxIndex] : n \in 1..3}
ReadAddresses == ReadNames \X ReadTuples

\* the addresses written by set: PID (which a document may lack) at fields
\* 1 and 2 with components and subcomponents 1 and 2, the index 0 at each
\* level, and NK1 (which no document has)
WriteTuples ==
    UNION {[1..n -> {1, 2}] : n \in 1..3} \cup {<<0>>, <<1, 0>>, <<1, 1, 0>>}
WriteAddresses ==
    ({PID} \X WriteTuples) \cup {<<NK1, <<2>>>>, <<NK1, <<1, 1>>>>}

\* the addresses the readme's get() examples read
ScenarioAddresses == { <<PID, <<5, 1>>>>, <<PID, <<5, 2>>>>, <<MSH, <<9>>>> }

\* the names document[name] is read with: the names read by paths, a name
\* that is not of the segment-name shape and may be in the document, and
\* one that is in no document
AccessNames == ReadNames \cup {INVALID_SEGMENT, <<"p", "i", "d">>}

\* the paths that match the grammar
ReadPaths == {pathInput(a) : a \in ReadAddresses \cup ScenarioAddresses}
WritePaths == {pathInput(a) : a \in WriteAddresses}

\* texts that do not match the grammar
MalformedTexts ==
    { <<"I", "N", "V", "A", "L", "I", "D">>,
      PID,
      PID \o <<"-">>,
      PID \o <<"-", "A">>,
      PID \o <<"-", "1", ".">>,
      <<"P", "I", "D", "X", "-", "1">>,
      <<"p", "i", "d", "-", "1">> }

MalformedPaths == {malformedInput(text) : text \in MalformedTexts}

\* the child numbers of positional writes: 0, the numbers that are read,
\* and one more
WriteIndexes == 0..(MaxIndex + 1)

\* the values written
Values == { <<"x">>, <<"y", "^", "z">> }

\* lines whose names are not of the segment-name shape: two members of
\* the document, a member of Object.prototype, and a name that is no
\* member; and a line of an ordinary name
NamedLines ==
    { segmentsMember \o <<"|", "x">>,
      getMember \o <<"|", "x">>,
      toStringMember \o <<"|", "x">>,
      INVALID_SEGMENT,
      PID \o <<"|", "1", "|">> }

\* the raw texts of one line or two lines of these
NamedTexts ==
    NamedLines \cup {a \o CRLF \o b : a \in NamedLines, b \in NamedLines}

\* the paths read and written on them
NamedPaths == {pathInput(a) : a \in {<<PID, <<1>>>>, <<PID, <<2>>>>, <<NK1, <<1>>>>}}

\* the names, keys and values of the addSegment calls: a key set may be
\* empty, a value may be the empty string
BuilderNames == {MSH, PID}
BuilderKeys == {1, 3}
BuilderValues == { <<>>, <<"x">> }
BuilderFields ==
    UNION {[keys -> BuilderValues] : keys \in SUBSET BuilderKeys}

\* the line the rules are validated against: PID-1 is '1', PID-2 is one
\* space, PID-3 is 'ab', and there is no PID-9
ValidatorLine == PID \o <<"|", "1", "|", " ", "|", "a", "b">>

\* the raw texts that are validated: that line, and a text without PID
ValidatorTexts == { ValidatorLine, OBX \o <<"|", "|", "y">> }

\* the paths of the rules: a whitespace-only field, a field with a value,
\* and a field the line does not have
RulePaths == { pathOf(PID, <<f>>) : f \in {2, 3, 9} }

\* the pattern of a regex rule: one or more digits ("" is no regex)
DigitsOnly == "^[0-9]+$"

\* the checks a rule carries beside required: none; maxLength,
\* allowedValues and dataType 'NM' together; dataType 'DT'; a regex
NoAllowedValues == [set |-> FALSE, values |-> <<>>]
RuleChecks ==
    { [maxLength |-> 0, allowedValues |-> NoAllowedValues, dataType |-> "", regex |-> ""],
      [maxLength |-> 1, allowedValues |-> [set |-> TRUE, values |-> << <<"a", "b">> >>],
       dataType |-> "NM", regex |-> ""],
      [maxLength |-> 0, allowedValues |-> NoAllowedValues, dataType |-> "DT",
       regex |-> ""],
      [maxLength |-> 0, allowedValues |-> NoAllowedValues, dataType |-> "",
       regex |-> DigitsOnly] }

\* the rules: every path with every check, required or optional (the
\* regex rules optional only)
Rules ==
    { rule \in { [path |-> path, required |-> required, maxLength |-> c.maxLength,
                  allowedValues |-> c.allowedValues, dataType |-> c.dataType,
                  regex |-> c.regex] :
                     path \in RulePaths, required \in BOOLEAN, c \in RuleChecks } :
          rule.regex = "" \/ ~rule.required }

\* the rule lists a validator is constructed with
RuleLists == UNION {[1..n -> Rules] : n \in 0..MaxRules}

(***************************************************************************)
(* The state machine.                                                      *)
(***************************************************************************)
this == [store |-> store, segments |-> segments, parsedSegments |-> parsedSegments,
         props |-> props]

\* the document in the next state
thisNext == [store |-> store', segments |-> segments',
             parsedSegments |-> parsedSegments', props |-> props']

\* the record of the last operation: its inputs (addr is the address the
\* path text was written from), how it ended (threw: in a TypeError;
\* created: it made a Segment; absent: it returned null), the string it
\* returned, the Segment and field number a positional write went to, the
\* view the operation wrote to last, a second view of the same field,
\* fetched from the Segment beside the first, the rules and the result of
\* a validation, and the Segments getAllSegments found
NoOp == [op |-> "new", path |-> <<>>, addr |-> <<>>, value |-> <<>>, threw |-> FALSE,
         created |-> FALSE, absent |-> FALSE, result |-> <<>>,
         seg |-> 0, f |-> 0, view |-> NULL, other |-> NULL,
         rules |-> <<>>, isValid |-> FALSE, errors |-> <<>>, found |-> <<>>]

\* new HL7Message(text)
Constructed(text) ==
    /\ raw = text
    /\ \E doc \in {HL7Message(text)} :
           /\ store = doc.store
           /\ segments = doc.segments
           /\ parsedSegments = doc.parsedSegments
           /\ props = doc.props
    /\ last = NoOp
    /\ steps = 0
    /\ builder = <<>>
    /\ calls = <<>>

Init == \E text \in DocTexts : Constructed(text)

InitRead == \E text \in RawTexts : Constructed(text)

InitBuild == Constructed(<<>>)

InitEffects == \E text \in DocTexts \cup ValidatorTexts : Constructed(text)

\* new HL7Message(text), which may end in a TypeError and give no document
InitNames ==
    \E text \in NamedTexts :
        IF constructorThrows(text)
        THEN /\ raw = text
             /\ store = <<>> /\ segments = <<>>
             /\ parsedSegments = [n \in {} |-> 0] /\ props = [n \in {} |-> 0]
             /\ last = [NoOp EXCEPT !.threw = TRUE]
             /\ steps = 0 /\ builder = <<>> /\ calls = <<>>
        ELSE Constructed(text)

InitValidate == \E text \in ValidatorTexts : Constructed(text)

\* message.set(path, value)
Set(p, value) ==
    /\ steps < MaxSteps
    /\ \E r \in {set(this, p.text, value)} :
           /\ store' = r.doc.store
           /\ segments' = r.doc.segments
           /\ parsedSegments' = r.doc.parsedSegments
           /\ props' = r.doc.props
           /\ last' = [NoOp EXCEPT !.op = "set", !.path = p.text, !.addr = p.addr,
                                   !.value = value,
                                   !.threw = r.threw, !.created = r.created,
                                   !.view = r.temp]
    /\ steps' = steps + 1
    /\ UNCHANGED <<raw, builder, calls>>

\* what a read leaves of the document
ReadFrame(name) ==
    /\ \E doc \in {afterRead(this, name)} :
           /\ store' = doc.store
           /\ segments' = doc.segments
           /\ parsedSegments' = doc.parsedSegments
           /\ props' = doc.props
    /\ UNCHANGED <<raw, builder, calls>>

\* message.get(path)
Get(p) ==
    /\ steps = 0
    /\ \E r \in {get(this, p.text)} :
           last' = [NoOp EXCEPT !.op = "get", !.path = p.text, !.addr = p.addr,
                                !.threw = r.threw, !.result = r.value]
    /\ steps' = steps + 1
    /\ ReadFrame(IF p.addr = <<>> THEN <<>> ELSE p.addr[1])

\* message[name]?.[f], message[name]?.[f]?.[c], message[name]?.[f]?.[c]?.[s]
IndexedRead(name, nums) ==
    /\ steps = 0
    /\ \E r \in {indexedRead(this, name, nums)} :
           last' = [NoOp EXCEPT !.op = "read", !.path = pathOf(name, nums),
                                !.addr = <<name, nums>>,
                                !.absent = r.absent, !.result = r.value]
    /\ steps' = steps + 1
    /\ ReadFrame(name)

\* message.toString()
Serialize ==
    /\ steps = 0
    /\ last' = [NoOp EXCEPT !.op = "toString", !.result = toString(this)]
    /\ steps' = steps + 1
    /\ ReadFrame(<<>>)

\* message.getSegment(name)
GetSegment(name) ==
    /\ steps = 0
    /\ last' = [NoOp EXCEPT !.op = "getSegment", !.addr = <<name, <<>>>>,
                            !.seg = getSegment(this, name),
                            !.absent = getSegment(this, name) = 0]
    /\ steps' = steps + 1
    /\ ReadFrame(name)

\* message.getAllSegments(name)
GetAllSegments(name) ==
    /\ steps = 0
    /\ last' = [NoOp EXCEPT !.op = "getAllSegments", !.addr = <<name, <<>>>>,
                            !.found = getAllSegments(this, name),
                            !.absent = getAllSegments(this, name) = <<>>]
    /\ steps' = steps + 1
    /\ ReadFrame(name)

\* message.hasSegment(name)
HasSegment(name) ==
    /\ steps = 0
    /\ last' = [NoOp EXCEPT !.op = "hasSegment", !.addr = <<name, <<>>>>,
                            !.absent = ~hasSegment(this, name)]
    /\ steps' = steps + 1
    /\ ReadFrame(name)

\* message.get(path), as a call of the member
GetCall(p) ==
    /\ steps = 0 /\ ~last.threw
    /\ \E r \in {getCall(this, p.text)} :
           last' = [NoOp EXCEPT !.op = "get", !.path = p.text, !.addr = p.addr,
                                !.threw = r.threw, !.result = r.value]
    /\ steps' = steps + 1
    /\ UNCHANGED <<raw, store, segments, parsedSegments, props, builder, calls>>

\* message.toString(), as a call of the member
ToStringCall ==
    /\ steps = 0 /\ ~last.threw
    /\ \E r \in {toStringCall(this)} :
           last' = [NoOp EXCEPT !.op = "toString", !.threw = r.threw,
                                !.result = r.value]
    /\ steps' = steps + 1
    /\ UNCHANGED <<raw, store, segments, parsedSegments, props, builder, calls>>

\* message.set(path, value), as a call of the member
SetCall(p, value) ==
    /\ steps = 0 /\ ~last.threw
    /\ \E r \in {setCall(this, p.text, value)} :
           /\ store' = r.doc.store
           /\ segments' = r.doc.segments
           /\ parsedSegments' = r.doc.parsedSegments
           /\ props' = r.doc.props
           /\ last' = [NoOp EXCEPT !.op = "set", !.path = p.text, !.addr = p.addr,
                                   !.value = value,
                                   !.threw = r.threw, !.created = r.created,
                                   !.view = r.temp]
    /\ steps' = steps + 1
    /\ UNCHANGED <<raw, builder, calls>>

\* builder.addSegment(name, fields)
AddSegment(name, fields) ==
    /\ Len(calls) < MaxCalls
    /\ \E r \in {addSegment(builder, name, fields)} :
           /\ builder' = r.value
           /\ calls' = IF r.threw THEN calls
                       ELSE Append(calls, [name |-> name, fields |-> fields])
           /\ last' = [NoOp EXCEPT !.op = "addSegment", !.threw = r.threw]
    /\ UNCHANGED <<raw, store, segments, parsedSegments, props, steps>>

\* message = builder.build()
Build ==
    /\ steps = 0
    /\ raw' = build(builder)
    /\ \E doc \in {HL7Message(build(builder))} :
           /\ store' = doc.store
           /\ segments' = doc.segments
           /\ parsedSegments' = doc.parsedSegments
           /\ props' = doc.props
    /\ last' = [NoOp EXCEPT !.op = "build"]
    /\ steps' = steps + 1
    /\ UNCHANGED <<builder, calls>>

\* new CustomValidator(rules).validate(message)
Validate(rules, legacy) ==
    /\ steps = 0
    /\ \E r \in {validate(this, rules, legacy)} :
           last' = [NoOp EXCEPT !.op = "validate", !.rules = rules,
                                !.isValid = r.isValid, !.errors = r.errors]
    /\ steps' = steps + 1
    /\ ReadFrame(<<>>)

\* message[name][f] = value
WriteField(name, f, value) ==
    /\ steps = 0
    /\ documentProxyGet(this, name) # 0
    /\ \E seg \in {documentProxyGet(this, name)} :
           /\ store' = [store EXCEPT ![seg] = SegmentProxySet(store[seg], f, value)]
           /\ last' = [NoOp EXCEPT !.op = "writeField",
                                   !.path = pathOf(name, <<f>>),
                                   !.addr = <<name, <<f>>>>, !.value = value,
                                   !.seg = seg, !.f = f]
    /\ steps' = steps + 1
    /\ UNCHANGED <<raw, segments, parsedSegments, props, builder, calls>>

\* if (message[name]?.[f]) { message[name][f][c] = value }: the write goes
\* through the HL7Field that segment[f] has just made; a second view of the
\* field is fetched with segment[f] as well
WriteComponent(name, f, c, value) ==
    /\ steps = 0
    /\ documentProxyGet(this, name) # 0
    /\ \E seg \in {documentProxyGet(this, name)} :
       \E field \in {SegmentProxyGet(store[seg], f)} :
           /\ field # NULL
           /\ last' = [NoOp EXCEPT !.op = "writeComponent",
                                   !.path = pathOf(name, <<f, c>>),
                                   !.addr = <<name, <<f, c>>>>, !.value = value,
                                   !.seg = seg, !.f = f,
                                   !.view = HL7FieldProxySet(field, c, value),
                                   !.other = SegmentProxyGet(store[seg], f)]
    /\ steps' = steps + 1
    /\ UNCHANGED <<raw, store, segments, parsedSegments, props, builder, calls>>

\* if (message[name]?.[f]?.[c]) { message[name][f][c][s] = value }: the
\* write goes through the HL7Component that field[c] has just made, on the
\* HL7Field that segment[f] has just made
WriteSubcomponent(name, f, c, s, value) ==
    /\ steps = 0
    /\ documentProxyGet(this, name) # 0
    /\ \E seg \in {documentProxyGet(this, name)} :
       \E field \in {SegmentProxyGet(store[seg], f)} :
           /\ field # NULL
           /\ HL7FieldProxyGet(field, c) # NULL
           /\ last' = [NoOp EXCEPT
                          !.op = "writeSubcomponent",
                          !.path = pathOf(name, <<f, c, s>>),
                          !.addr = <<name, <<f, c, s>>>>, !.value = value,
                          !.seg = seg, !.f = f,
                          !.view = HL7ComponentProxySet(HL7FieldProxyGet(field, c),
                                                        s, value)]
    /\ steps' = steps + 1
    /\ UNCHANGED <<raw, store, segments, parsedSegments, props, builder, calls>>

\* view[k] = value on the view held since the last positional write: the
\* HL7Field after message[name][f][c] = ..., the HL7Component after
\* message[name][f][c][s] = ...
WriteAgain(k, value) ==
    /\ steps = 1
    /\ last.op \in {"writeComponent", "writeSubcomponent"}
    /\ \E nums \in {[last.addr[2] EXCEPT ![Len(last.addr[2])] = k]} :
           last' = [last EXCEPT
                       !.path = pathOf(last.addr[1], nums),
                       !.addr = <<last.addr[1], nums>>,
                       !.value = value,
                       !.view = IF last.op = "writeComponent"
                                THEN HL7FieldProxySet(last.view, k, value)
                                ELSE HL7ComponentProxySet(last.view, k, value)]
    /\ steps' = steps + 1
    /\ UNCHANGED <<raw, store, segments, parsedSegments, props, builder, calls>>

\* a document and a sequence of set calls on it
Next ==
    \E p \in WritePaths \cup MalformedPaths, value \in Values : Set(p, value)

Spec == Init /\ [][Next]_vars

\* a raw text, the document parsed from it, and one read of it or one
\* positional write to it, or two writes through one view
NextRead ==
    \/ \E p \in ReadPaths \cup MalformedPaths : Get(p)
    \/ \E a \in ReadAddresses : IndexedRead(a[1], a[2])
    \/ Serialize
    \/ \E name \in ReadNames, f \in WriteIndexes, value \in Values :
           WriteField(name, f, value)
    \/ \E name \in ReadNames, f \in 1..MaxIndex, c \in WriteIndexes, value \in Values :
           WriteComponent(name, f, c, value)
    \/ \E name \in ReadNames, f, c \in 1..MaxIndex, s \in WriteIndexes,
          value \in Values :
           WriteSubcomponent(name, f, c, s, value)
    \/ \E k \in WriteIndexes, value \in Values : WriteAgain(k, value)

SpecRead == InitRead /\ [][NextRead]_vars

\* a raw text of any names, the document constructed from it, and one
\* call of get, set or toString
NextNames ==
    \/ \E p \in NamedPaths : GetCall(p)
    \/ \E p \in NamedPaths, value \in Values : SetCall(p, value)
    \/ ToStringCall

SpecNames == InitNames /\ [][NextNames]_vars

\* a raw text, the document parsed from it, and one read of any kind
NextEffects ==
    \/ \E p \in ReadPaths \cup MalformedPaths : Get(p)
    \/ \E a \in ReadAddresses : IndexedRead(a[1], a[2])
    \/ Serialize
    \/ \E name \in AccessNames : GetSegment(name)
    \/ \E name \in AccessNames : GetAllSegments(name)
    \/ \E name \in AccessNames : HasSegment(name)
    \/ \E rule \in Rules, legacy \in BOOLEAN : Validate(<<rule>>, legacy)

SpecEffects == InitEffects /\ [][NextEffects]_vars

\* a builder, addSegment calls on it, and one build
NextBuild ==
    \/ \E name \in BuilderNames, fields \in BuilderFields : AddSegment(name, fields)
    \/ Build

SpecBuild == InitBuild /\ [][NextBuild]_vars

\* a raw text, the document parsed from it, and one validation of it
\* (what Date.parse makes of a text outside the date-time format is open
\* where a rule of dataType 'DT' is in the list)
NextValidate ==
    \E rules \in RuleLists :
        \E legacy \in IF \E i \in 1..Len(rules) : rules[i].dataType = "DT"
                       THEN BOOLEAN ELSE {FALSE} :
            Validate(rules, legacy)

SpecValidate == InitValidate /\ [][NextValidate]_vars

(***************************************************************************)
(* What the claims speak of, read off the ordered list and the field      *)
(* strings directly.                                                       *)
(***************************************************************************)
\* the names of the segments of the ordered list
namesIn(st, segs) == {st[segs[i]].name : i \in 1..Len(segs)}

\* the segments of the ordered list named n, in order
namedIn(st, segs, n) == SelectSeq(segs, LAMBDA id : st[id].name = n)

\* the first segment named a[1] has no field a[2][1], or that field no
\* component a[2][2], or that component no subcomponent a[2][3] (children
\* are numbered from 1)
outOfRange(st, segs, a) ==
    LET nums == a[2]
        fields == st[namedIn(st, segs, a[1])[1]].fields
        components == split(fields[nums[1] + 1], "^")
        subcomponents == split(components[nums[2]], "&")
    IN  \/ nums[1] + 1 > Len(fields)
        \/ /\ Len(nums) >= 2
           /\ \/ nums[2] < 1
              \/ nums[2] > Len(components)
              \/ /\ Len(nums) = 3
                 /\ (nums[3] < 1 \/ nums[3] > Len(subcomponents))

\* every level the address names is there
allPresent(st, segs, a) == a[1] \in namesIn(st, segs) /\ ~outOfRange(st, segs, a)

\* the text with every segment separator (CRLF, LF, CR) written as CRLF
RECURSIVE normalise(_)
normalise(t) ==
    IF Len(t) = 0 THEN <<>>
    ELSE IF Len(t) >= 2 /\ t[1] = CR /\ t[2] = LF
    THEN CRLF \o normalise(SubSeq(t, 3, Len(t)))
    ELSE IF t[1] \in {CR, LF}
    THEN CRLF \o normalise(Tail(t))
    ELSE <<t[1]>> \o normalise(Tail(t))

\* the lines of a text whose lines are separated by CRLF, by a lone LF or
\* by a lone CR
RECURSIVE separated(_)
separated(t) ==
    IF \A i \in 1..Len(t) : t[i] \notin {CR, LF}
    THEN <<t>>
    ELSE LET k == CHOOSE i \in 1..Len(t) :
                      t[i] \in {CR, LF} /\ \A j \in 1..(i - 1) : t[j] \notin {CR, LF}
             skip == IF t[k] = CR /\ k < Len(t) /\ t[k + 1] = LF THEN 2 ELSE 1
         IN  <<SubSeq(t, 1, k - 1)>> \o separated(SubSeq(t, k + skip, Len(t)))

\* the child list after is the child list before, extended to position k
\* with empty strings, with v at position k
extended(before, after, k, v) ==
    /\ Len(after) >= k
    /\ after[k] = v
    /\ \A i \in 1..Len(before) : i # k => after[i] = before[i]
    /\ \A i \in (Len(before) + 1)..(k - 1) : after[i] = <<>>

\* the text is empty or has white space only
whitespaceOnly(t) == \A i \in 1..Len(t) : t[i] \in {" ", "\t", CR, LF}

(***************************************************************************)
(* The claims.                                                             *)
(***************************************************************************)
\* C1: once set(p, v) has returned for a path p that matches the grammar
\* and numbers its field, component and subcomponent from 1, get(p)
\* returns v.
C1_WriteThenRead ==
    (/\ last.op = "set"
     /\ last.addr # <<>>
     /\ \A i \in 1..Len(last.addr[2]) : last.addr[2][i] >= 1
     /\ ~last.threw)
        => get(this, last.path) = Returns(last.value)

\* C2: after segment[f][c] = v or segment[f][c][s] = v, the Segment's
\* getField(f) is the re-joined string that holds v: the string of the
\* Field written, or, for a subcomponent, a string whose component c is the
\* string of the Component written.
C2_UpwardPropagation ==
    /\ last.op = "writeComponent"
           => getField(store[last.seg], last.f) = last.view.value
    /\ last.op = "writeSubcomponent"
           => getComponent(store[last.seg], last.f, last.addr[2][2])
                  = last.view.value

\* C3: toString() of the document parsed from a text T made of segment
\* lines is T with every segment separator written as CRLF.
C3_RoundTrip ==
    (last.op = "toString" /\ raw \in WellFormedTexts) => last.result = normalise(raw)

\* C4: for every name n, getAllSegments(n) is the subsequence of
\* getSegments() of the segments named n, in order: the name index and the
\* ordered list hold the same segments.
C4_IndexListConsistent ==
    \A n \in DOMAIN parsedSegments \cup namesIn(store, segments) \cup ReadNames :
        getAllSegments(this, n) = namedIn(store, getSegments(this), n)

\* C4 witness: a set call has acted on a document to which an earlier set
\* call had added a segment.
C4_Witness ==
    /\ last.op = "set" /\ ~last.created /\ last.addr # <<>>
    /\ Len(store) > Len(HL7Message(raw).store)

\* C5: a set call on a path whose segment name is not in the document
\* appends one segment of that name to the ordered list and leaves the
\* segments before it as they were, so that toString() afterwards is
\* toString() before followed by the new segment's line.
C5_NewSegmentAppended ==
    [][(/\ steps' = steps + 1
        /\ last'.op = "set"
        /\ last'.addr # <<>>
        /\ last'.addr[1] \notin namesIn(store, segments))
       => (/\ Len(segments') = Len(segments) + 1
           /\ SubSeq(segments', 1, Len(segments)) = segments
           /\ \A i \in 1..Len(segments) :
                  store'[segments[i]] = store[segments[i]]
           /\ store'[segments'[Len(segments')]].name = last'.addr[1]
           /\ toString(thisNext) =
                  (IF Len(segments) = 0 THEN <<>> ELSE toString(this) \o CRLF)
                  \o SegmentToString(store'[segments'[Len(segments')]]))]_vars

\* C5 witness: a set call has made a segment behind the segments of a
\* document that was not empty.
C5_Witness == last.op = "set" /\ last.created /\ Len(segments) > 1

\* C6: no set call ends in an error.
C6_SetNeverRaises == last.op = "set" => ~last.threw

\* C7: when every level NAME, f, c, s of a path is present, get(path) is the
\* string of the view the positional read returns; when a level is missing,
\* get(path) is empty and the positional read returns the absent marker.
C7_PathIndexEquivalence ==
    last.op = "read" =>
        IF allPresent(store, segments, last.addr)
        THEN ~last.absent /\ get(this, last.path) = Returns(last.result)
        ELSE last.absent /\ get(this, last.path) = Returns(<<>>)

\* C8: segment[i] returns the absent marker exactly when i is beyond the
\* last field; a field that is present and empty is read as a view.
C8_AbsentOnlyBeyondLastField ==
    (/\ last.op = "read"
     /\ Len(last.addr[2]) = 1
     /\ last.addr[1] \in namesIn(store, segments))
        => (last.absent <=> outOfRange(store, segments, last.addr))

\* C9: a set call on a path that does not match the grammar changes
\* neither the ordered list, nor the name index, nor the properties of the
\* object, nor any segment, and does not end in an error.
C9_MalformedSetNoMutation ==
    [][(steps' = steps + 1 /\ last'.op = "set" /\ last'.path \in MalformedTexts)
       => (/\ store' = store
           /\ segments' = segments
           /\ parsedSegments' = parsedSegments
           /\ props' = props
           /\ ~last'.threw)]_vars

\* C9 witness: a set call on a malformed path has acted on a document that
\* has a segment.
C9_Witness ==
    last.op = "set" /\ last.path \in MalformedTexts /\ Len(segments) > 0

\* C10: get never ends in an error, and it returns the empty string when
\* the path is malformed, when the named segment is not in the document,
\* and when an index of the path is out of range.
C10_GetEmptyOnFailure ==
    last.op = "get" =>
        /\ ~last.threw
        /\ (\/ last.path \in MalformedTexts
            \/ /\ last.addr # <<>>
               /\ ~allPresent(store, segments, last.addr))
               => last.result = <<>>

\* C10 witness: get has been called with a path whose segment is in the
\* document and whose component or subcomponent index is out of range.
C10_Witness ==
    /\ last.op = "get"
    /\ last.addr # <<>>
    /\ last.addr[1] \in namesIn(store, segments)
    /\ Len(last.addr[2]) >= 2
    /\ outOfRange(store, segments, last.addr)

\* C11: the document constructed from a raw text has one Segment per
\* non-blank line of the text, in order, where the lines are separated by
\* CRLF, by a lone LF or by a lone CR.
C11_SplitsOnEverySeparator ==
    last.op = "new" =>
        [i \in 1..Len(segments) |-> SegmentToString(store[segments[i]])]
            = SelectSeq(separated(raw), notBlank)

\* C12: on the document constructed from the MSH line, a single CR and the
\* PID line, get("PID-5.1") returns "DOE", get("PID-5.2") returns "JOHN",
\* get("MSH-9") returns "ADT^A01", and hasSegment("OBX") is false.
C12_EndToEndScenario ==
    raw = ScenarioText =>
        /\ ~hasSegment(this, OBX)
        /\ (last.op = "get" /\ last.addr = <<PID, <<5, 1>>>>)
               => last.result = <<"D", "O", "E">>
        /\ (last.op = "get" /\ last.addr = <<PID, <<5, 2>>>>)
               => last.result = <<"J", "O", "H", "N">>
        /\ (last.op = "get" /\ last.addr = <<MSH, <<9>>>>)
               => last.result = <<"A", "D", "T", "^", "A", "0", "1">>

C15_AutoExtension ==
    [][(steps' = steps + 1) =>
        LET k == last'.addr[2][Len(last'.addr[2])]
            fresh == SegmentProxyGet(store[last'.seg], last'.f)
        IN  /\ last'.op = "writeComponent" =>
                   LET before == IF last.op = "writeComponent"
                                 THEN last.view.components
                                 ELSE fresh.components
                   IN  (k >= 1 /\ Len(before) < k)
                           => extended(before, last'.view.components, k, last'.value)
            /\ last'.op = "writeSubcomponent" =>
                   LET before == IF last.op = "writeSubcomponent"
                                 THEN last.view.subcomponents
                                 ELSE HL7FieldProxyGet(fresh, last'.addr[2][2]).subcomponents
                   IN  (k >= 1 /\ Len(before) < k)
                           => extended(before, last'.view.subcomponents, k, last'.value)
            /\ last'.op = "writeField" =>
                   LET before == Tail(store[last'.seg].fields)
                   IN  (k >= 1 /\ Len(before) < k)
                           => extended(before, Tail(store'[last'.seg].fields), k,
                                       last'.value)]_vars

\* C15 witness: a component has been written two or more positions beyond
\* the last component of a Field view just fetched.
C15_Witness ==
    /\ last.op = "writeComponent" /\ steps = 1
    /\ last.addr[2][2] >= Len(last.other.components) + 2

\* C16: of two views of one field, both fetched from the Segment, a
\* component written through one is read through the other.
C16_ViewsShareComponents ==
    last.op = "writeComponent" =>
        HL7FieldProxyGet(last.other, last.addr[2][2])
            = HL7FieldProxyGet(last.view, last.addr[2][2])

\* C17: the name of every Segment is position 0 of its field list, and so
\* the first field of its toString() line.
C17_NameIsFieldZero ==
    \A id \in 1..Len(store) :
        /\ getName(store[id]) = store[id].fields[1]
        /\ getName(store[id]) = split(SegmentToString(store[id]), "|")[1]

\* C18: the string of a Field view is its components joined with '^', and
\* the string of a Component view is its subcomponents joined with '&':
\* for the views fetched from a Segment and for the views written to,
\* once or twice.
C18_ViewJoinInvariant ==
    /\ last.other # NULL =>
           /\ last.other.value = join(last.other.components, <<"^">>)
           /\ \A c \in 1..Len(last.other.components) :
                  LET component == HL7FieldProxyGet(last.other, c)
                  IN  component.value = join(component.subcomponents, <<"&">>)
    /\ last.op = "writeComponent" =>
           last.view.value = join(last.view.components, <<"^">>)
    /\ last.op = "writeSubcomponent" =>
           last.view.value = join(last.view.subcomponents, <<"&">>)

\* C18 witness: a Field view has been written to twice, the second time
\* beyond its last component.
C18_Witness ==
    /\ last.op = "writeComponent" /\ steps = 2
    /\ Len(last.view.components) > Len(last.other.components) + 1
    /\ last.addr[2][2] = Len(last.view.components)

C20_RequiredShortCircuit ==
    last.op = "validate" =>
        \A i \in 1..Len(last.rules) :
            LET rule == last.rules[i]
                pathOnce(k) == \A j \in 1..Len(last.rules) :
                                   j # k => last.rules[j].path # last.rules[k].path
                errorsOf(k) == SelectSeq(last.errors,
                                         LAMBDA e : e.path = last.rules[k].path)
            IN  (rule.required /\ pathOnce(i) /\ trim(get(this, rule.path).value) = <<>>)
                    => /\ errorsOf(i) = <<[path |-> rule.path, message |-> RequiredMissing]>>
                       /\ ~last.isValid
                       /\ \A k \in (i + 1)..Len(last.rules) :
                              LET later == last.rules[k]
                                  value == get(this, later.path).value
                              IN  ( /\ pathOnce(k)
                                    /\ trim(value) # <<>>
                                    /\ later.maxLength # 0
                                    /\ Len(value) > later.maxLength )
                                      => \E n \in 1..Len(errorsOf(k)) :
                                             errorsOf(k)[n].message
                                                 = MaxLengthExceeded(later.maxLength)

\* C20 witness: a validation whose first rule is required, carries
\* maxLength, allowedValues and dataType and reads a whitespace-only value,
\* and whose second rule has reported a value that is too long.
C20_Witness ==
    /\ last.op = "validate" /\ Len(last.rules) = 2
    /\ last.rules[1].required /\ last.rules[1].maxLength # 0
    /\ last.rules[1].allowedValues.set /\ last.rules[1].dataType = "NM"
    /\ get(this, last.rules[1].path).value = <<" ">>
    /\ last.rules[2].path # last.rules[1].path
    /\ \E n \in 1..Len(last.errors) :
           /\ last.errors[n].path = last.rules[2].path
           /\ last.errors[n].message = MaxLengthExceeded(last.rules[2].maxLength)

\* the errors can be dealt out to the rules in order: each error to a rule
\* of its path that is not an optional rule reading the empty string, no
\* error to a rule before the rule of the error before it
RECURSIVE inRuleOrder(_, _, _)
inRuleOrder(doc, errors, rules) ==
    IF Len(errors) = 0 THEN TRUE
    ELSE IF Len(rules) = 0 THEN FALSE
    ELSE IF /\ errors[1].path = rules[1].path
            /\ rules[1].required \/ get(doc, rules[1].path).value # <<>>
    THEN inRuleOrder(doc, Tail(errors), rules)
    ELSE inRuleOrder(doc, errors, Tail(rules))

\* C21: validate returns isValid true exactly when the error list is empty;
\* the errors are in rule order, each with the path of the rule it comes
\* from; and no error comes from an optional rule whose path reads as the
\* empty string.
C21_ResultShape ==
    last.op = "validate" =>
        /\ last.isValid <=> (last.errors = <<>>)
        /\ inRuleOrder(this, last.errors, last.rules)
        /\ \A i \in 1..Len(last.rules) :
               ( /\ ~last.rules[i].required
                 /\ get(this, last.rules[i].path).value = <<>>
                 /\ \A j \in 1..Len(last.rules) :
                        j # i => last.rules[j].path # last.rules[i].path )
                   => \A n \in 1..Len(last.errors) :
                          last.errors[n].path # last.rules[i].path

\* C21 witness: a validation of two rules of different paths that has
\* reported errors of both, the second rule being required and reading a
\* missing field.
C21_Witness ==
    /\ last.op = "validate" /\ Len(last.rules) = 2
    /\ last.rules[1].path # last.rules[2].path
    /\ ~last.rules[1].required /\ last.rules[2].required
    /\ get(this, last.rules[2].path).value = <<>>
    /\ Len(last.errors) = 3
    /\ last.errors[1].path = last.rules[1].path
    /\ last.errors[3].path = last.rules[2].path
    /\ ~last.isValid

\* value matches the pattern regex
matches(value, regex) ==
    IF regex = DigitsOnly
    THEN Len(value) >= 1 /\ \A i \in 1..Len(value) : value[i] \in Digits
    ELSE TRUE

\* C22: when a rule carries a regex and the value read at its path is
\* present and does not match the pattern, validate reports an error for
\* that path and isValid is false.
C22_RegexRule ==
    last.op = "validate" =>
        \A i \in 1..Len(last.rules) :
            LET rule == last.rules[i]
                value == get(this, rule.path).value
            IN  (rule.regex # "" /\ value # <<>> /\ ~matches(value, rule.regex))
                    => /\ \E n \in 1..Len(last.errors) : last.errors[n].path = rule.path
                       /\ ~last.isValid

segmentNames(doc) ==
    [i \in 1..Len(doc.segments) |-> getName(doc.store[doc.segments[i]])]

\* new HL7Message(document.toString())
reparse(doc) == HL7Message(toString(doc))

\* the document and its re-parsed text have the same segment names in the
\* same order and the same get(p) for every valid path p
roundTrips(doc) ==
    /\ segmentNames(reparse(doc)) = segmentNames(doc)
    /\ \A p \in ReadPaths \cup WritePaths :
           get(reparse(doc), p.text) = get(doc, p.text)

\* value has none of '|', '^', '&', CR, LF
delimiterFree(value) ==
    \A i \in 1..Len(value) : value[i] \notin {"|", "^", "&", CR, LF}

\* C24: serialisation stays the inverse of parsing after mutation: a set
\* call with a delimiter-free value, on a document whose text re-parses to
\* the same segment names and the same get(p) for every valid path p, gives
\* a document of which this is true again (and so it is true after any
\* sequence of such calls on a parsed document).
C24_ReparseAfterSet ==
    [][(last'.op = "set" /\ delimiterFree(last'.value) /\ roundTrips(this))
           => roundTrips(thisNext)]_vars

\* the components of field f of a Segment, and the subcomponents of
\* component c of that field, as the stored field string has them
componentsOf(segment, f) == split(getField(segment, f), "^")
subcomponentsOf(segment, f, c) ==
    LET components == componentsOf(segment, f)
    IN  IF c \in 1..Len(components) THEN split(components[c], "&") ELSE <<>>

\* every position of the list before but position k has kept its value
keptBut(before, after, k) ==
    \A i \in 1..Len(before) : i # k => (i <= Len(after) /\ after[i] = before[i])

\* C25: set(p, v) with a valid path changes only the addressed slot: every
\* other segment is unchanged, every other field the target segment had
\* keeps its value, and for a component or subcomponent path every sibling
\* component or subcomponent of the addressed one keeps its value.
C25_SetFrame ==
    [][(last'.op = "set" /\ last'.addr # <<>>) =>
        LET name == last'.addr[1]
            nums == last'.addr[2]
            had == namedIn(store, segments, name)
        IN  /\ \A id \in 1..Len(store) :
                   (had = <<>> \/ id # had[1]) => store'[id] = store[id]
            /\ SubSeq(segments', 1, Len(segments)) = segments
            /\ had # <<>> =>
                   LET before == store[had[1]]
                       after == store'[had[1]]
                   IN  /\ keptBut(before.fields, after.fields, nums[1] + 1)
                       /\ Len(nums) >= 2 =>
                              keptBut(componentsOf(before, nums[1]),
                                      componentsOf(after, nums[1]), nums[2])
                       /\ Len(nums) = 3 =>
                              keptBut(subcomponentsOf(before, nums[1], nums[2]),
                                      subcomponentsOf(after, nums[1], nums[2]),
                                      nums[3])]_vars

\* C26: index 0 is not a child address: for a path whose component or
\* subcomponent index is 0, get returns the empty string, and set leaves
\* the field of the path, and with it every 1-based component and
\* subcomponent, as it was.
C26_ZeroIsNoChild ==
    [][(/\ last'.op = "set" /\ last'.addr # <<>>
        /\ \E i \in 2..Len(last'.addr[2]) : last'.addr[2][i] = 0) =>
        LET name == last'.addr[1]
            f == last'.addr[2][1]
            had == namedIn(store, segments, name)
            has == namedIn(store', segments', name)
        IN  /\ get(this, last'.path) = Returns(<<>>)
            /\ get(thisNext, last'.path) = Returns(<<>>)
            /\ has # <<>> =>
                   getField(store'[has[1]], f)
                       = IF had = <<>> THEN <<>> ELSE getField(store[had[1]], f)]_vars

\* what the path numbers address in a Segment: the field, the component
\* or the subcomponent of the stored field string, the empty string where
\* there is none
readAt(segment, nums) ==
    LET components == componentsOf(segment, nums[1])
        subcomponents == subcomponentsOf(segment, nums[1], nums[2])
    IN  IF Len(nums) = 1 THEN getField(segment, nums[1])
        ELSE IF getField(segment, nums[1]) = <<>> \/ nums[2] \notin 1..Len(components)
        THEN <<>>
        ELSE IF Len(nums) = 2 THEN components[nums[2]]
        ELSE IF nums[3] \in 1..Len(subcomponents) THEN subcomponents[nums[3]]
        ELSE <<>>

\* C27: for a name that several segments have, get and set resolve to the
\* first of them: after any sequence of set calls every later segment of
\* the name is as it was parsed, and get(p) returns what p addresses in the
\* first one.
C27_FirstOfName ==
    \A name \in namesIn(store, segments) :
        LET ids == namedIn(store, segments, name)
        IN  Len(ids) >= 2 =>
                /\ \A i \in 2..Len(ids) : store[ids[i]] = HL7Message(raw).store[ids[i]]
                /\ \A p \in WritePaths :
                       p.addr[1] = name =>
                           get(this, p.text) = Returns(readAt(store[ids[1]], p.addr[2]))

\* C27 witness: a set call has written a field of the first of two PID
\* segments, which now differs from the second.
C27_Witness ==
    /\ last.op = "set" /\ last.addr # <<>> /\ last.addr[1] = PID
    /\ Len(last.addr[2]) = 1 /\ last.addr[2][1] >= 1
    /\ Len(namedIn(store, segments, PID)) = 2
    /\ getField(store[namedIn(store, segments, PID)[1]], last.addr[2][1]) = last.value
    /\ getField(store[namedIn(store, segments, PID)[2]], last.addr[2][1]) # last.value

\* C28: the ordered segment list only grows, and only by set: after any
\* sequence of set calls the list begins with the list that was parsed,
\* has at most one more segment per set call, a set call that created a
\* segment has appended it under a name the document did not have, and the
\* number of segments of a name is at most max(1, its count after parsing).
C28_ListOnlyGrows ==
    LET parsed == HL7Message(raw)
        count(name) == Len(namedIn(store, segments, name))
        parsedCount(name) == Len(namedIn(parsed.store, parsed.segments, name))
    IN  /\ Len(segments) >= Len(parsed.segments)
        /\ SubSeq(segments, 1, Len(parsed.segments)) = parsed.segments
        /\ Len(segments) <= Len(parsed.segments) + steps
        /\ \A name \in namesIn(store, segments) :
               count(name) <= IF parsedCount(name) > 1 THEN parsedCount(name) ELSE 1
        /\ (last.op = "set" /\ last.created) =>
               /\ getName(store[segments[Len(segments)]]) = last.addr[1]
               /\ count(last.addr[1]) = 1
               /\ hasSegment(this, last.addr[1])

\* C28 witness: the second of two set calls on the name NK1, which no
\* parsed document has, has found the segment the first one appended.
C28_Witness ==
    /\ steps = 2 /\ last.op = "set" /\ ~last.created
    /\ last.addr # <<>> /\ last.addr[1] = NK1
    /\ Len(namedIn(store, segments, NK1)) = 1
    /\ Len(segments) = Len(HL7Message(raw).segments) + 1
    /\ Len(segments) >= 2

\* the non-blank lines of a text
nonBlankLines(t) == SelectSeq(separated(t), LAMBDA line : ~whitespaceOnly(line))

\* C29: whatever the segment names are, construction yields an ordered
\* list with one Segment per non-blank line, in the order of the lines, and
\* get, set and toString keep working: none ends in an error, get returns
\* what the path addresses in the first segment of its name, and toString
\* returns the lines.
C29_AnyNames ==
    LET lines == nonBlankLines(raw)
        list == getSegmentsCall(this)
        named(name) == namedIn(store, segments, name)
    IN  /\ ~last.threw
        /\ last.op # "set" =>
               /\ list.isList
               /\ Len(list.value) = Len(lines)
               /\ \A i \in 1..Len(lines) :
                      store[list.value[i]].fields = split(lines[i], "|")
        /\ last.op = "get" =>
               last.result = IF named(last.addr[1]) = <<>> THEN <<>>
                             ELSE readAt(store[named(last.addr[1])[1]], last.addr[2])
        /\ last.op = "toString" => last.result = join(lines, CRLF)

\* the operations that read
ReadOps == {"get", "read", "toString", "getSegment", "getAllSegments", "hasSegment",
            "validate"}

====
